---- MODULE Spec2Model ----
(***************************************************************************)
(* A model of src/analysis/analyzer.go: the Analyzer (a Verbose flag and a *)
(* bytes.Buffer called Writer) and the report it writes for a packed,      *)
(* signed or plain transaction.                                            *)
(*                                                                         *)
(* The Writer is modelled as the sequence of the write calls that reached  *)
(* it: one segment per fmt.Fprintln, fmt.Fprintf or spew.Fdump call, with  *)
(* the format string of the source and the values that were formatted.    *)
(* A caller is a fixed sequence of calls on one Analyzer (calls), chosen   *)
(* in Init; every call of a pass is cut into the steps of its code.        *)
(***************************************************************************)
EXTENDS Integers, Sequences, FiniteSets, TLC

\* ------------------------------------------------------------------ bounds
MaxActions == 3      \* actions of one transaction, both lists together
MaxAuths == 2        \* authorizations of one action
MaxPayload == 2      \* payload bytes of an action of another contract
MaxCodeLen == 5      \* code bytes of a SetCode action
MaxPacked == 1       \* bytes of a packed blob of the envelope
MaxBlobs == 1        \* context-free data blobs of a signed transaction
MaxClock == 2        \* readings of time.Now, and expirations
MaxCalls == 2        \* calls a caller makes on one Analyzer

\* ------------------------------------------------------------- sequences
RECURSIVE SeqsUpTo(_, _)
SeqsUpTo(S, n) ==
    IF n = 0 THEN {<<>>}
    ELSE LET shorter == SeqsUpTo(S, n - 1)
         IN  shorter \cup {Append(s, x) : s \in {t \in shorter : Len(t) = n - 1}, x \in S}

\* Two segments are the same write: the same call, format and values
SameSegment(a, b) ==
    /\ a.k = b.k
    /\ a.k = "Pf" => a.fmt = b.fmt
    /\ a.args = b.args

IsPrefix(s, t) == Len(s) <= Len(t) /\ \A i \in 1..Len(s) : SameSegment(s[i], t[i])

Nil == "nil"

\* ------------------------------------------------- the libraries it calls
\* crypto/sha256: a hash.Hash is the bytes written to it so far, and Sum is
\* the digest of those bytes. The digest is kept symbolic (no two inputs
\* collide); hex.EncodeToString is kept symbolic in the same way.
sha256New == <<>>
hashWrite(h, p) == h \o p
hashSum(h) == [sha256 |-> h]
EncodeToString(d) == [hex |-> d]

\* bytes.Index: the first position (from 0) where sep starts in s, or -1.
RECURSIVE IndexFrom(_, _, _)
IndexFrom(s, sep, i) ==
    IF i + Len(sep) > Len(s) THEN -1
    ELSE IF SubSeq(s, i + 1, i + Len(sep)) = sep THEN i
    ELSE IndexFrom(s, sep, i + 1)

Index(s, sep) == IndexFrom(s, sep, 0)

\* bytes.Contains mistaken for bytes.HasPrefix
Contains_AtStart(b, subslice) ==
    Len(subslice) <= Len(b) /\ SubSeq(b, 1, Len(subslice)) = subslice

\* bytes.Contains
Contains(b, subslice) == Index(b, subslice) # -1

\* strings.Join
RECURSIVE Join(_, _)
Join(elems, sep) ==
    IF Len(elems) = 0 THEN <<>>
    ELSE IF Len(elems) = 1 THEN <<elems[1]>>
    ELSE <<elems[1], sep>> \o Join(Tail(elems), sep)

\* eos.UnmarshalBinary of an ABI blob: the library decides; a blob carries
\* what the library makes of it. On an error the target keeps its zero value.
ZeroABI == [version |-> "", structs |-> 0, actions |-> 0, tables |-> 0, marshals |-> TRUE]

UnmarshalBinary(blob) ==
    IF blob.decodes THEN [err |-> Nil, abi |-> blob.abi]
    ELSE [err |-> "unmarshal error", abi |-> ZeroABI]

\* json.MarshalIndent of an eos.ABI: the text, or an error and no text.
MarshalIndent(abi) ==
    IF abi.marshals THEN [err |-> Nil, json |-> [indented |-> abi]]
    ELSE [err |-> "json error", json |-> [text |-> ""]]

\* ------------------------------------------------------------ the inputs
Accounts == {"X", "Y"}
Auths == {[Actor |-> "alice", Permission |-> "active"],
          [Actor |-> "bob", Permission |-> "owner"]}
CodeBytes == {"S", "Y", "E", "O"}
PackedBytes == {"p"}

DefaultAuth == <<[Actor |-> "alice", Permission |-> "active"]>>

GoodABI == [version |-> "eosio::abi/1.0", structs |-> 2, actions |-> 1, tables |-> 0,
            marshals |-> TRUE]
OddABI == [version |-> "eosio::abi/1.0", structs |-> 2, actions |-> 1, tables |-> 0,
           marshals |-> FALSE]
ABIBlobs == {[decodes |-> TRUE, abi |-> GoodABI],
             [decodes |-> TRUE, abi |-> OddABI],
             [decodes |-> FALSE, abi |-> ZeroABI]}

\* An action whose ActionData.Data is a *system.SetCode
SetCodeAct(auth, target, code) ==
    [Account |-> "eosio", Name |-> "setcode", Authorization |-> auth,
     Data |-> [type |-> "SetCode", Account |-> target, VMType |-> 0, VMVersion |-> 0,
               Code |-> code]]

\* An action whose ActionData.Data is a *system.SetABI
SetABIAct(auth, target, blob) ==
    [Account |-> "eosio", Name |-> "setabi", Authorization |-> auth,
     Data |-> [type |-> "SetABI", Account |-> target, ABI |-> blob]]

\* An action of another contract: its Data is neither of the two
OtherAct(account, auth, payload) ==
    [Account |-> account, Name |-> "transfer", Authorization |-> auth,
     Data |-> [type |-> "Other", payload |-> payload]]

Header(expiration) ==
    [Expiration |-> expiration, RefBlockNum |-> 1, RefBlockPrefix |-> 2,
     MaxNetUsageWords |-> 0, MaxCPUUsageMS |-> 0, DelaySec |-> 0]

Tx(header, cfa, acts) ==
    [hdr |-> header, ContextFreeActions |-> cfa, Actions |-> acts]

\* The actions that make the action lists: every kind, every ABI blob,
\* an account that had its ABI set (X) and one that had not (Y).
CoreActions ==
    {OtherAct(a, DefaultAuth, <<"p">>) : a \in Accounts}
    \cup {SetABIAct(DefaultAuth, "X", b) : b \in ABIBlobs}
    \cup {SetCodeAct(DefaultAuth, "X", <<"S">>)}

\* The actions that make one entry: every authorization list, payload, code.
EntryActions ==
    {OtherAct(a, auth, p) : a \in Accounts, auth \in SeqsUpTo(Auths, MaxAuths),
                            p \in SeqsUpTo(PackedBytes, MaxPayload)}
    \cup {SetABIAct(DefaultAuth, t, b) : t \in Accounts, b \in ABIBlobs}
    \cup {SetCodeAct(DefaultAuth, "X", c) : c \in SeqsUpTo(CodeBytes, MaxCodeLen)}

\* Transactions by their action lists, by their one entry, by their header
ListTxs ==
    UNION {{Tx(Header(1), cfa, acts) :
                acts \in SeqsUpTo(CoreActions, MaxActions - Len(cfa))} :
           cfa \in SeqsUpTo(CoreActions, MaxActions)}

EntryTxs == {Tx(Header(1), <<>>, <<a>>) : a \in EntryActions}

HeaderTxs == {Tx(Header(e), <<>>, <<>>) : e \in 0..MaxClock}

SmallTx == Tx(Header(1), <<OtherAct("X", DefaultAuth, <<"p">>)>>,
              <<SetCodeAct(DefaultAuth, "X", <<"S">>)>>)

Signed(blobs, t) == [ContextFreeData |-> blobs, Transaction |-> t]

\* A PackedTransaction, and what its Unpack returns: an error, or sTx
Packed(sigs, cfd, ptx, unpackErr, sTx) ==
    [Signatures |-> sigs, PackedContextFreeData |-> cfd, PackedTransaction |-> ptx,
     unpackErr |-> unpackErr, sTx |-> sTx]

\* What Unpack returns beside an error: nothing a pass reads
NilSTx == Signed(<<>>, Tx(Header(0), <<>>, <<>>))

PackedBlobs == SeqsUpTo(PackedBytes \cup {"q"}, MaxPacked)
BlobLists == SeqsUpTo(SeqsUpTo(PackedBytes, 1), MaxBlobs)

SignedTransactions == {Signed(blobs, t) : blobs \in BlobLists, t \in HeaderTxs}

PackedTransactions ==
    {Packed(<<"SIG_K1">>, <<>>, <<"p">>, FALSE, Signed(<<>>, t)) : t \in ListTxs}
    \cup {Packed(sigs, cfd, ptx, FALSE, Signed(blobs, SmallTx)) :
            sigs \in {<<>>, <<"SIG_K1">>}, cfd \in PackedBlobs, ptx \in PackedBlobs,
            blobs \in BlobLists}
    \cup {Packed(sigs, cfd, ptx, TRUE, NilSTx) :
            sigs \in {<<>>, <<"SIG_K1">>}, cfd \in PackedBlobs, ptx \in PackedBlobs}

\* A call of the caller, with its argument. now is what time.Now will read
\* during the call.
CallPacked(trx, now) == [fn |-> "AnalyzePacked", trx |-> trx, now |-> now]
CallSigned(sTx, now) == [fn |-> "AnalyzeSignedTransaction", sTx |-> sTx, now |-> now]
CallTransaction(t, now) == [fn |-> "AnalyzeTransaction", tx |-> t, now |-> now]
CallWriter(fn) ==
    [fn |-> fn, v |-> IF fn \in {"Dump", "VerbDump"} THEN <<<<"p">>>> ELSE <<"p">>, now |-> 0]

WriterFns == {"Pln", "Pf", "Dump", "VerbPln", "VerbPf", "VerbDump"}

PassCalls ==
    {CallPacked(trx, 0) : trx \in PackedTransactions}
    \cup {CallSigned(s, 0) : s \in SignedTransactions}
    \cup {CallTransaction(t, 0) : t \in EntryTxs \cup {SmallTx}}
    \cup {CallTransaction(t, now) : t \in HeaderTxs, now \in 0..MaxClock}

SmallCalls ==
    {CallWriter(fn) : fn \in WriterFns}
    \cup {CallPacked(Packed(<<>>, <<>>, <<"p">>, FALSE, Signed(<<>>, SmallTx)), 0),
          CallPacked(Packed(<<>>, <<>>, <<"p">>, TRUE, NilSTx), 0)}
    \cup {CallSigned(Signed(<<>>, SmallTx), 0), CallTransaction(SmallTx, 0)}

\* What a caller does with one Analyzer: one pass, or a few small calls.
Callers == {<<c>> : c \in PassCalls} \cup SeqsUpTo(SmallCalls, MaxCalls)

\* ------------------------------------------------------------- the state
VARIABLES
    Verbose,    \* Analyzer.Verbose
    Writer,     \* Analyzer.Writer: the segments written so far
    calls,      \* the caller: the calls it makes, in order
    ci,         \* the number of calls started
    pc,         \* where the running call is: "idle" between calls
    tx,         \* the *eos.Transaction the pass walks
    idx,        \* the index of the range loop over an action list
    err,        \* what the last call returned (the named result err)
    mark        \* Writer's length when the running (or last) pass began

vars == <<Verbose, Writer, calls, ci, pc, tx, idx, err, mark>>

NoTx == Tx(Header(0), <<>>, <<>>)

\* ------------------------------------------------------------ the writers
\* Pln on a Writer that was Reset first
Pln_Truncates(w, v) == <<[k |-> "Pln", args |-> v]>>

Pln(w, v) == Append(w, [k |-> "Pln", args |-> v])

VerbPln(w, v) == IF Verbose THEN Append(w, [k |-> "Pln", args |-> v]) ELSE w

\* VerbDump without its test of Verbose
VerbDump_Always(w, v) == Append(w, [k |-> "Dump", args |-> v])

VerbDump(w, v) == IF Verbose THEN Append(w, [k |-> "Dump", args |-> v]) ELSE w

Dump(w, v) == Append(w, [k |-> "Dump", args |-> v])

Pf(w, format, v) == Append(w, [k |-> "Pf", fmt |-> format, args |-> v])

VerbPf(w, format, v) ==
    IF Verbose THEN Append(w, [k |-> "Pf", fmt |-> format, args |-> v]) ELSE w

Rule == "---------------------------------------------------------------------"

\* The five lines of a section banner
Banner(w, title) == Pln(Pln(Pln(Pln(Pln(w, <<>>), <<Rule>>), <<title>>), <<Rule>>), <<>>)

\* --------------------------------------------------------- analyzeAction
\* The entry line numbered with idx, not idx+1
EntryLine_FromZero(w, i, act) ==
    LET auths == [n \in 1..Len(act.Authorization) |->
                    <<act.Authorization[n].Actor, "@", act.Authorization[n].Permission>>]
    IN  Append(w, [k |-> "Pf", fmt |-> "%d. Action %s::%s, authorized by: %s\n",
                   args |-> <<i, act.Account, act.Name, Join(auths, ", ")>>])

\* The entry line of an action (lines 111-115)
EntryLine(w, i, act) ==
    LET auths == [n \in 1..Len(act.Authorization) |->
                    <<act.Authorization[n].Actor, "@", act.Authorization[n].Permission>>]
    IN  Pf(w, "%d. Action %s::%s, authorized by: %s\n",
           <<i + 1, act.Account, act.Name, Join(auths, ", ")>>)

\* case *system.SetCode (lines 118-126)
SetCodeReport(w, obj) ==
    LET w1 == Pf(w, "Set code for account: %s\n", <<obj.Account>>)
        w2 == Pf(w1, "VM type/version: %d/%d\n", <<obj.VMType, obj.VMVersion>>)
        h == hashWrite(sha256New, obj.Code)
        w3 == Pf(w2, "Code's SHA256: %s\n", <<EncodeToString(hashSum(h))>>)
        w4 == Pf(w3, "Contains the string 'SYS': %v\n", <<Contains(obj.Code, <<"S", "Y", "S">>)>>)
        w5 == Pf(w4, "Contains the string 'EOS': %v\n", <<Contains(obj.Code, <<"E", "O", "S">>)>>)
    IN  VerbDump(w5, <<obj.Code>>)

\* case *system.SetABI (lines 128-139)
SetABIReport(w, obj) ==
    LET w1 == Pf(w, "Set ABI for account: %s\n", <<obj.Account>>)
        u == UnmarshalBinary(obj.ABI)
        w2 == IF u.err # Nil
              THEN Pf(w1, "Couldn't unpack the ABI therein: %s\n", <<u.err>>)
              ELSE w1
        j == MarshalIndent(u.abi)
        w3 == IF j.err # Nil
              THEN Pf(w2, "Couldn't serialize ABI into JSON: %s\n", <<j.err>>)
              ELSE w2
        w4 == VerbPln(w3, <<"JSON representation of the ABI:">>)
    IN  VerbPf(w4, "%s\n", <<j.json>>)

\* analyzeAction that returns the error of eos.UnmarshalBinary after its note
analyzeAction_ReturnsDecodeError(w, i, act) ==
    LET w0 == EntryLine(w, i, act)
        obj == act.Data
    IN  CASE obj.type = "SetCode" ->
                [w |-> Pln(Pln(SetCodeReport(w0, obj), <<>>), <<>>), err |-> Nil]
          [] obj.type = "SetABI" ->
                IF UnmarshalBinary(obj.ABI).err # Nil
                THEN [w |-> Pf(Pf(w0, "Set ABI for account: %s\n", <<obj.Account>>),
                               "Couldn't unpack the ABI therein: %s\n",
                               <<UnmarshalBinary(obj.ABI).err>>),
                      err |-> UnmarshalBinary(obj.ABI).err]
                ELSE [w |-> Pln(Pln(SetABIReport(w0, obj), <<>>), <<>>), err |-> Nil]
          [] OTHER -> [w |-> w0, err |-> Nil]

\* analyzeAction(idx, act): the Writer after it, and the error it returns
analyzeAction(w, i, act) ==
    LET w0 == EntryLine(w, i, act)
        obj == act.Data
    IN  CASE obj.type = "SetCode" ->
                [w |-> Pln(Pln(SetCodeReport(w0, obj), <<>>), <<>>), err |-> Nil]
          [] obj.type = "SetABI" ->
                [w |-> Pln(Pln(SetABIReport(w0, obj), <<>>), <<>>), err |-> Nil]
          [] OTHER -> [w |-> w0, err |-> Nil]

\* ---------------------------------------------------------- AnalyzePacked
Idle == pc \in {"idle", "done"}

NextCall == calls[ci + 1]

\* Lines 34-49: the two banners and what is between them
PackedSection(w, trx) ==
    LET w1 == Banner(w, "------------------------- PACKED TRANSACTION ------------------------")
        w2 == Pf(w1, "Transaction ID: %s\n", <<EncodeToString(hashSum(trx.PackedTransaction))>>)
        w3 == Pf(w2, "Signatures: %q\n", <<trx.Signatures>>)
        w4 == Pf(w3, "Packed context free data length: %d\n", <<Len(trx.PackedContextFreeData)>>)
        w5 == VerbDump(w4, <<trx.PackedContextFreeData>>)
        w6 == Pf(w5, "Packed transaction data length: %d\n", <<Len(trx.PackedTransaction)>>)
        w7 == VerbDump(w6, <<trx.PackedContextFreeData>>)
    IN  Banner(w7, "----------------------- SIGNED TRANSACTION --------------------------")

AnalyzePacked ==
    /\ Idle
    /\ ci < Len(calls)
    /\ NextCall.fn = "AnalyzePacked"
    /\ ci' = ci + 1
    /\ mark' = Len(Writer)
    /\ Writer' = PackedSection(Writer, NextCall.trx)
    /\ err' = Nil
    /\ tx' = NoTx
    /\ idx' = 0
    /\ pc' = "unpack"
    /\ UNCHANGED <<Verbose, calls>>

\* Unpack whose error is not tested
Unpack_ErrorIgnored ==
    /\ pc = "unpack"
    /\ err' = err
    /\ pc' = "blobs"
    /\ UNCHANGED <<Verbose, Writer, calls, ci, tx, idx, mark>>

\* Lines 51-54: sTx, err := trx.Unpack(); on an error the call returns it
Unpack ==
    /\ pc = "unpack"
    /\ IF calls[ci].trx.unpackErr
       THEN /\ err' = "unpack error"
            /\ pc' = "done"
       ELSE /\ err' = err
            /\ pc' = "blobs"
    /\ UNCHANGED <<Verbose, Writer, calls, ci, tx, idx, mark>>

\* Lines 57-60: the loop over the context-free data blobs
RECURSIVE BlobLines(_, _, _)
BlobLines(w, blobs, i) ==
    IF i >= Len(blobs) THEN w
    ELSE BlobLines(VerbDump(Pf(w, "%d. Blob length: %d\n", <<i + 1, Len(blobs[i + 1])>>),
                            <<blobs[i + 1]>>),
                   blobs, i + 1)

\* Lines 56-62: the blobs, then AnalyzeSignedTransaction(sTx), which is
\* AnalyzeTransaction(sTx.Transaction) (lines 65-67)
ContextFreeData ==
    /\ pc = "blobs"
    /\ LET sTx == calls[ci].trx.sTx
       IN  /\ Writer' = BlobLines(
                  Pf(Writer, "Number of context-free data blobs (on Transaction): %d\n",
                     <<Len(sTx.ContextFreeData)>>),
                  sTx.ContextFreeData, 0)
           /\ tx' = sTx.Transaction
    /\ pc' = "transaction"
    /\ UNCHANGED <<Verbose, calls, ci, idx, err, mark>>

\* A caller's own call of AnalyzeSignedTransaction (lines 65-67)
AnalyzeSignedTransaction ==
    /\ Idle
    /\ ci < Len(calls)
    /\ NextCall.fn = "AnalyzeSignedTransaction"
    /\ ci' = ci + 1
    /\ mark' = Len(Writer)
    /\ err' = Nil
    /\ tx' = NextCall.sTx.Transaction
    /\ idx' = 0
    /\ pc' = "transaction"
    /\ UNCHANGED <<Verbose, Writer, calls>>

\* A caller's own call of AnalyzeTransaction (line 68)
AnalyzeTransaction ==
    /\ Idle
    /\ ci < Len(calls)
    /\ NextCall.fn = "AnalyzeTransaction"
    /\ ci' = ci + 1
    /\ mark' = Len(Writer)
    /\ err' = Nil
    /\ tx' = NextCall.tx
    /\ idx' = 0
    /\ pc' = "transaction"
    /\ UNCHANGED <<Verbose, Writer, calls>>

\* Lines 70-89: the header section and the banner of the actions
HeaderSection(w, t, now) ==
    LET h == t.hdr
        w1 == Banner(w, "----------------------- TRANSACTION HEADER --------------------------")
        w2 == Pf(w1, "Expiration: %s (in %s, analysis time: %s)\n",
                 <<h.Expiration, h.Expiration - now, now>>)
        w3 == Pf(w2, "Expiration: %s\n", <<h.Expiration>>)
        w4 == Pf(w3, "Reference block number: %d\n", <<h.RefBlockNum>>)
        w5 == Pf(w4, "Reference block prefix: %x\n", <<h.RefBlockPrefix>>)
        w6 == Pf(w5, "Maximum net usage words (of 8 bytes, 0 = unlimited): %d\n",
                 <<h.MaxNetUsageWords>>)
        w7 == Pf(w6, "Maximum CPU usage in milliseconds (0 = unlimited): %d\n",
                 <<h.MaxCPUUsageMS>>)
        w8 == Pf(w7, "Number of seconds to delay transaction (cancellable during that time): %d\n",
                 <<h.DelaySec>>)
    IN  Banner(w8, "------------------------------ ACTIONS ------------------------------")

\* Lines 70-91: the header, the banner and the count of context-free actions
TransactionHeader ==
    /\ pc = "transaction"
    /\ Writer' = Pf(HeaderSection(Writer, tx, calls[ci].now),
                    "Context-free actions: %d\n", <<Len(tx.ContextFreeActions)>>)
    /\ idx' = 0
    /\ pc' = "cfactions"
    /\ UNCHANGED <<Verbose, calls, ci, tx, err, mark>>

\* Lines 92-96: one turn of the loop over tx.ContextFreeActions
ContextFreeAction ==
    /\ pc = "cfactions"
    /\ idx < Len(tx.ContextFreeActions)
    /\ LET r == analyzeAction(Writer, idx, tx.ContextFreeActions[idx + 1])
       IN  /\ Writer' = r.w
           /\ IF r.err # Nil
              THEN err' = r.err /\ pc' = "done" /\ idx' = idx
              ELSE err' = err /\ pc' = pc /\ idx' = idx + 1
    /\ UNCHANGED <<Verbose, calls, ci, tx, mark>>

\* Lines 98-100: after the loop, a blank line and the count of actions
ActionsCount ==
    /\ pc = "cfactions"
    /\ idx = Len(tx.ContextFreeActions)
    /\ Writer' = Pf(Pln(Writer, <<>>), "Actions: %d\n", <<Len(tx.Actions)>>)
    /\ idx' = 0
    /\ pc' = "actions"
    /\ UNCHANGED <<Verbose, calls, ci, tx, err, mark>>

\* Lines 101-105: one turn of the loop over tx.Actions
Action ==
    /\ pc = "actions"
    /\ idx < Len(tx.Actions)
    /\ LET r == analyzeAction(Writer, idx, tx.Actions[idx + 1])
       IN  /\ Writer' = r.w
           /\ IF r.err # Nil
              THEN err' = r.err /\ pc' = "done" /\ idx' = idx
              ELSE err' = err /\ pc' = pc /\ idx' = idx + 1
    /\ UNCHANGED <<Verbose, calls, ci, tx, mark>>

\* Line 107: return nil
Return ==
    /\ pc = "actions"
    /\ idx = Len(tx.Actions)
    /\ err' = Nil
    /\ pc' = "done"
    /\ UNCHANGED <<Verbose, Writer, calls, ci, tx, idx, mark>>

\* ------------------------------------------- the caller's own print calls
Emit(fn, w) ==
    /\ Idle
    /\ ci < Len(calls)
    /\ NextCall.fn = fn
    /\ ci' = ci + 1
    /\ Writer' = w
    /\ pc' = "idle"
    /\ UNCHANGED <<Verbose, calls, tx, idx, err, mark>>

CallPln == Emit("Pln", Pln(Writer, NextCall.v))
CallVerbPln == Emit("VerbPln", VerbPln(Writer, NextCall.v))
CallVerbDump == Emit("VerbDump", VerbDump(Writer, NextCall.v))
CallDump == Emit("Dump", Dump(Writer, NextCall.v))
CallPf == Emit("Pf", Pf(Writer, "%s", NextCall.v))
CallVerbPf == Emit("VerbPf", VerbPf(Writer, "%s", NextCall.v))

\* ------------------------------------------------------ the specification
\* NewAnalyzer(verbose), and a caller
Init ==
    /\ Verbose \in BOOLEAN
    /\ Writer = <<>>
    /\ calls \in Callers
    /\ ci = 0
    /\ pc = "idle"
    /\ tx = NoTx
    /\ idx = 0
    /\ err = Nil
    /\ mark = 0

Next ==
    \/ AnalyzePacked
    \/ Unpack
    \/ ContextFreeData
    \/ AnalyzeSignedTransaction
    \/ AnalyzeTransaction
    \/ TransactionHeader
    \/ ContextFreeAction
    \/ ActionsCount
    \/ Action
    \/ Return
    \/ CallPln
    \/ CallVerbPln
    \/ CallVerbDump
    \/ CallDump
    \/ CallPf
    \/ CallVerbPf

Spec == Init /\ [][Next]_vars

\* ------------------------------------------------- reading a pass's report
\* The call that runs, or the last one that ran
Call == calls[ci]

InPass == ci > 0 /\ pc # "idle"
Done == ci > 0 /\ pc = "done"
FromPacked == Call.fn = "AnalyzePacked"

\* The transaction the caller handed to the pass, as the caller built it
InputTx ==
    CASE Call.fn = "AnalyzePacked" -> Call.trx.sTx.Transaction
      [] Call.fn = "AnalyzeSignedTransaction" -> Call.sTx.Transaction
      [] OTHER -> Call.tx

\* The pass walked the transaction to its end
Walked == Done /\ ~(FromPacked /\ Call.trx.unpackErr)

AllActions == InputTx.ContextFreeActions \o InputTx.Actions

\* The positions of the Writer that the running (or last) pass wrote
Region == (mark + 1)..Len(Writer)

IsPf(seg, format) == seg.k = "Pf" /\ seg.fmt = format
IsPln(seg, v) == seg.k = "Pln" /\ seg.args = v

Nth(S, n) == CHOOSE p \in S : Cardinality({q \in S : q < p}) = n - 1

EntryFmt == "%d. Action %s::%s, authorized by: %s\n"
EntryPositions == {p \in Region : IsPf(Writer[p], EntryFmt)}
EntryPos(n) == Nth(EntryPositions, n)

\* The positions a section's title line is at
TitlePositions(title) == {p \in Region : IsPln(Writer[p], <<title>>)}

PackedTitle == "------------------------- PACKED TRANSACTION ------------------------"
SignedTitle == "----------------------- SIGNED TRANSACTION --------------------------"
HeaderTitle == "----------------------- TRANSACTION HEADER --------------------------"
ActionsTitle == "------------------------------ ACTIONS ------------------------------"
Titles == <<PackedTitle, SignedTitle, HeaderTitle, ActionsTitle>>

FailsToDecode(a) == a.Data.type = "SetABI" /\ ~a.Data.ABI.decodes
FailsToMarshal(a) == a.Data.type = "SetABI" /\ a.Data.ABI.decodes /\ ~a.Data.ABI.abi.marshals

UnpackNote == "Couldn't unpack the ABI therein: %s\n"
MarshalNote == "Couldn't serialize ABI into JSON: %s\n"

\* Every ABI blob that failed to decode or to serialise has its note, right
\* after the "Set ABI for account" line of its action
ABIFailuresNoted ==
    \A n \in 1..Len(AllActions) :
        /\ FailsToDecode(AllActions[n]) => IsPf(Writer[EntryPos(n) + 2], UnpackNote)
        /\ FailsToMarshal(AllActions[n]) => IsPf(Writer[EntryPos(n) + 2], MarshalNote)

\* Every action has its entry line, in the order cf actions, then actions
EveryActionHasItsEntry ==
    /\ Cardinality(EntryPositions) = Len(AllActions)
    /\ \A n \in 1..Len(AllActions) :
          /\ Writer[EntryPos(n)].args[2] = AllActions[n].Account
          /\ Writer[EntryPos(n)].args[3] = AllActions[n].Name

\* ------------------------------------------------------------------ C1
\* C1: a pass started with AnalyzePacked returns a non-nil error if and only
\* if Unpack failed; when it unpacked, the pass returns nil, every action of
\* both lists has its entry line, and every SetABI action whose blob failed
\* to decode has its inline note.
C1_OnlyUnpackFailureIsFatal ==
    (Done /\ FromPacked) =>
        /\ (err # Nil) <=> Call.trx.unpackErr
        /\ ~Call.trx.unpackErr =>
              /\ err = Nil
              /\ EveryActionHasItsEntry
              /\ ABIFailuresNoted

\* A pass that unpacked, met a blob that does not decode in its first
\* context-free action, and went on to a later action of each list
C1_Witness ==
    /\ Done /\ FromPacked /\ ~Call.trx.unpackErr
    /\ Len(InputTx.ContextFreeActions) >= 2
    /\ FailsToDecode(InputTx.ContextFreeActions[1])
    /\ Len(InputTx.Actions) >= 1
    /\ Cardinality(EntryPositions) = 3
    /\ err = Nil

\* ------------------------------------------------------------------ C2
\* C2: every decode attempt of a pass succeeds or leaves a trace in the
\* report: a failed Unpack has something written after the SIGNED
\* TRANSACTION banner before the pass stops, and a failed ABI decode or JSON
\* serialisation has its note.
C2_EveryFailureLeavesATrace ==
    (Done /\ FromPacked) =>
        IF Call.trx.unpackErr
        THEN \E p \in Region : \E q \in TitlePositions(SignedTitle) :
                 p > q + 2 /\ Writer[p].k \in {"Pf", "Pln"}
        ELSE ABIFailuresNoted

\* ------------------------------------------------------------------ C3
\* The titles of the region, in the order they were written
TitlesWritten == {i \in 1..Len(Titles) : TitlePositions(Titles[i]) # {}}

HeaderFmts ==
    {"Expiration: %s (in %s, analysis time: %s)\n", "Expiration: %s\n",
     "Reference block number: %d\n", "Reference block prefix: %x\n",
     "Maximum net usage words (of 8 bytes, 0 = unlimited): %d\n",
     "Maximum CPU usage in milliseconds (0 = unlimited): %d\n",
     "Number of seconds to delay transaction (cancellable during that time): %d\n"}

FieldsOrEntries ==
    {p \in Region : Writer[p].k = "Pf" /\ Writer[p].fmt \in HeaderFmts \cup {EntryFmt}}

\* C3: in the report of an AnalyzePacked pass each banner appears at most
\* once and in the order PACKED, SIGNED, HEADER, ACTIONS; the first two are
\* always written; HEADER, ACTIONS, the header fields and the action entries
\* are written if and only if Unpack succeeded, and then all are present.
C3_BannersInOrder ==
    (InPass /\ FromPacked) =>
        /\ \A i \in 1..Len(Titles) : Cardinality(TitlePositions(Titles[i])) <= 1
        /\ \A i, j \in TitlesWritten :
              i < j => Nth(TitlePositions(Titles[i]), 1) < Nth(TitlePositions(Titles[j]), 1)
        /\ {1, 2} \subseteq TitlesWritten
        /\ Call.trx.unpackErr => TitlesWritten = {1, 2} /\ FieldsOrEntries = {}
        /\ (Done /\ ~Call.trx.unpackErr) =>
              /\ TitlesWritten = {1, 2, 3, 4}
              /\ Cardinality(FieldsOrEntries) = Cardinality(HeaderFmts) + Len(AllActions)

\* A pass whose Unpack failed has ended
C3_Witness ==
    /\ Done /\ FromPacked /\ Call.trx.unpackErr
    /\ TitlesWritten = {1, 2}
    /\ err # Nil

\* ------------------------------------------------------------------ C4
\* The number an entry line carries, for the n-th action of both lists
LabelOf(n) ==
    IF n <= Len(InputTx.ContextFreeActions) THEN n
    ELSE n - Len(InputTx.ContextFreeActions)

ActionsCountPositions == {p \in Region : IsPf(Writer[p], "Actions: %d\n")}

\* C4: a pass that walked a transaction wrote exactly one entry line per
\* action: the context-free actions' entries in list order, all before the
\* "Actions:" count line, then the regular actions' entries in list order,
\* and the k-th action of either list is labelled k.
C4_OneEntryPerActionInOrder ==
    Walked =>
        /\ EveryActionHasItsEntry
        /\ \A n \in 1..Len(AllActions) :
              /\ Writer[EntryPos(n)].args[1] = LabelOf(n)
              /\ \A c \in ActionsCountPositions :
                    (n <= Len(InputTx.ContextFreeActions)) <=> (EntryPos(n) < c)

\* A walked transaction with an action in each list and a second action in one
C4_Witness ==
    /\ Walked
    /\ Len(InputTx.ContextFreeActions) >= 1
    /\ Len(InputTx.Actions) >= 1
    /\ Len(AllActions) >= 3
    /\ \E n \in 1..Len(AllActions) : Writer[EntryPos(n)].args[1] = 2

\* ------------------------------------------------------------------ C5
\* A segment that is a raw byte dump, or the JSON text of an ABI
IsDump(seg) == seg.k = "Dump"
IsABIJson(seg) ==
    \/ IsPf(seg, "%s\n")
    \/ IsPln(seg, <<"JSON representation of the ABI:">>)

\* C5: with Verbose false, at every point of a pass, what the pass wrote
\* holds no byte dump and no ABI JSON text.
C5_QuietPassHasNoDumps ==
    (InPass /\ ~Verbose) =>
        \A p \in Region : ~IsDump(Writer[p]) /\ ~IsABIJson(Writer[p])

\* A quiet pass that walked a SetCode action with code bytes and a SetABI
\* action whose blob decoded and serialised
C5_Witness ==
    /\ Walked /\ ~Verbose
    /\ \E n \in 1..Len(AllActions) :
          AllActions[n].Data.type = "SetCode" /\ Len(AllActions[n].Data.Code) > 0
    /\ \E n \in 1..Len(AllActions) :
          /\ AllActions[n].Data.type = "SetABI"
          /\ AllActions[n].Data.ABI.decodes
          /\ AllActions[n].Data.ABI.abi.marshals

\* ------------------------------------------------------------------ C6
\* Something of the n-th action's payload is reported after its entry line
HasSubReport(n) ==
    /\ EntryPos(n) < Len(Writer)
    /\ Writer[EntryPos(n) + 1].k = "Pf"
    /\ Writer[EntryPos(n) + 1].fmt # EntryFmt

\* C6: once a SetABI action for account X was decoded in a pass, every later
\* action of the pass addressed to X has its payload decoded with that ABI
\* and reported, not left as opaque bytes.
C6_LaterActionsUseInstalledABI ==
    Walked =>
        \A m, n \in 1..Len(AllActions) :
            ( /\ m < n
              /\ AllActions[m].Data.type = "SetABI"
              /\ AllActions[m].Data.ABI.decodes
              /\ AllActions[n].Data.type = "Other"
              /\ AllActions[n].Account = AllActions[m].Data.Account )
            => HasSubReport(n)

\* ------------------------------------------------------------------ C7
\* C7: an action whose payload is neither SetCode nor SetABI has, after its
\* entry line, a note that carries the byte length of its payload, and the
\* pass reports no error.
C7_OpaquePayloadNote ==
    Walked =>
        /\ err = Nil
        /\ \A n \in 1..Len(AllActions) :
              AllActions[n].Data.type = "Other" =>
                 /\ HasSubReport(n)
                 /\ \E i \in 1..Len(Writer[EntryPos(n) + 1].args) :
                       Writer[EntryPos(n) + 1].args[i] = Len(AllActions[n].Data.payload)

\* ------------------------------------------------------------------ C8
\* s occurs in b as a contiguous run of bytes
Occurs(s, b) == \E i \in 1..Len(b) : i + Len(s) - 1 <= Len(b) /\ SubSeq(b, i, i + Len(s) - 1) = s

\* C8: for every SetCode action with code bytes C the report carries the hash
\* of exactly C, the 'SYS' and 'EOS' lines say true exactly when that string
\* occurs in C, and the transaction the pass walks is the one it was given.
C8_CodeHashAndMarkers ==
    /\ (InPass /\ pc \in {"cfactions", "actions"}) => tx = InputTx
    /\ Walked =>
        /\ tx = InputTx
        /\ \A n \in 1..Len(AllActions) :
              AllActions[n].Data.type = "SetCode" =>
                 LET C == AllActions[n].Data.Code
                     p == EntryPos(n)
                 IN  /\ IsPf(Writer[p + 3], "Code's SHA256: %s\n")
                     /\ Writer[p + 3].args = <<[hex |-> [sha256 |-> C]]>>
                     /\ IsPf(Writer[p + 4], "Contains the string 'SYS': %v\n")
                     /\ Writer[p + 4].args = <<Occurs(<<"S", "Y", "S">>, C)>>
                     /\ IsPf(Writer[p + 5], "Contains the string 'EOS': %v\n")
                     /\ Writer[p + 5].args = <<Occurs(<<"E", "O", "S">>, C)>>

\* A walked SetCode action whose code holds 'SYS', not at its start, and no 'EOS'
C8_Witness ==
    /\ Walked
    /\ \E n \in 1..Len(AllActions) :
          /\ AllActions[n].Data.type = "SetCode"
          /\ Occurs(<<"S", "Y", "S">>, AllActions[n].Data.Code)
          /\ SubSeq(AllActions[n].Data.Code, 1, 3) # <<"S", "Y", "S">>
          /\ ~Occurs(<<"E", "O", "S">>, AllActions[n].Data.Code)
          /\ Writer[EntryPos(n) + 4].args = <<TRUE>>

\* ------------------------------------------------------------------ C9
CfdLengthPositions == {p \in Region : IsPf(Writer[p], "Packed context free data length: %d\n")}
PtxLengthPositions == {p \in Region : IsPf(Writer[p], "Packed transaction data length: %d\n")}

\* C9: with Verbose true, the dump after 'Packed context free data length'
\* is of the packed context-free data, and the dump after 'Packed
\* transaction data length' is of the packed transaction bytes.
C9_VerboseDumpsEachPackedBlob ==
    (InPass /\ FromPacked /\ Verbose) =>
        /\ \A p \in CfdLengthPositions :
              IsDump(Writer[p + 1]) /\ Writer[p + 1].args = <<Call.trx.PackedContextFreeData>>
        /\ \A p \in PtxLengthPositions :
              IsDump(Writer[p + 1]) /\ Writer[p + 1].args = <<Call.trx.PackedTransaction>>

\* ------------------------------------------------------------------ C10
\* C10: the Writer only grows, by appending: at every step of every call the
\* content before the step is a prefix of the content after it, and no step
\* changes Verbose.
C10_AppendOnly == [][IsPrefix(Writer, Writer') /\ Verbose' = Verbose]_vars

\* A second pass on the same Analyzer has ended, after a first that wrote
C10_Witness ==
    /\ Done
    /\ ci = 2
    /\ mark > 0
    /\ Len(Writer) > mark

====
